---- MODULE Spec2Model ----
(***************************************************************************)
(* FreshShare authentication / session middleware (middleware/authJwt.js)  *)
(* and the middleware chain of server.js that mounts it in front of the    *)
(* page routes (routes/pages.routes.js) and API routes                     *)
(* (routes/auth.routes.js).                                                *)
(*                                                                         *)
(* Time is Date.now(), in milliseconds.  A string is a sequence; the       *)
(* characters of a header are one-character strings and a serialised JWT   *)
(* contributes the three segments <<"jwt", payload, signature>>.           *)
(***************************************************************************)
EXTENDS Integers, Sequences, FiniteSets, TLC

VARIABLES now, ticks, store, jar, chain, client, groups, tally, reqs

vars == <<now, ticks, store, jar, chain, client, groups, tally, reqs>>

---------------------------------------------------------------------------
(* Bounds of the model *)

\* Date.now() / 1000 at the start of a behaviour
StartSec == 1000

\* number of times the clock may advance in a behaviour
MaxTicks == 2

---------------------------------------------------------------------------
(* Process-wide configuration and literals of authJwt.js *)

JWT_SECRET == "freshShare-auth-secret"

OtherSecret == "not-the-server-secret"

oneDayInSeconds == 24 * 60 * 60

sevenDaysInSeconds == 7 * 24 * 60 * 60

\* the clock moves by half a second, or by six days and one hour
ShortStepMs == 1000 \div 2

LongStepMs == ((6 * 24) + 1) * 60 * 60 * 1000

TickSteps == {ShortStepMs, LongStepMs}

StartMs == StartSec * 1000

---------------------------------------------------------------------------
(* Strings *)

Bearer7 == <<"B", "e", "a", "r", "e", "r", " ">>

LowerBearer7 == <<"b", "e", "a", "r", "e", "r", " ">>

Basic6 == <<"B", "a", "s", "i", "c", " ">>

\* String.prototype.startsWith
StartsWith(s, prefix) ==
  /\ Len(s) >= Len(prefix)
  /\ SubSeq(s, 1, Len(prefix)) = prefix

\* String.prototype.substring(n): the characters from index n (0-based) on
Substring(s, n) == SubSeq(s, n + 1, Len(s))

\* an absent string (undefined), and JavaScript truthiness of a string
Absent == <<"undefined">>

Truthy(s) == s # Absent /\ s # <<>>

\* undefined and null where an object is expected
Undefined == [undefined |-> TRUE]

Null == [null |-> TRUE]

---------------------------------------------------------------------------
(* The user store (db.user): the set of identifiers that have a record *)

Users == {"u1", "u2"}

UserDoc(id) == [_id |-> id, name |-> id, password |-> "hash"]

\* Query.select('-password')
SelectMinusPassword(doc) == [f \in (DOMAIN doc) \ {"password"} |-> doc[f]]

\* a lookup the store rejects (unreachable, cast error)
Rejected == [rejected |-> TRUE]

\* User.findById(id) when the store answers
FindById(s, id) == IF id \in s THEN UserDoc(id) ELSE Null

---------------------------------------------------------------------------
(* The group store (models/group.model): documents by identifier *)

\* votes of the proposed product before anyone votes
InitialVotes == 0

\* group "g": u1 is a member, one proposed product "p"; group "k": u1 is a
\* member, the document has no proposedProducts; no other group exists
InitialGroups ==
  [ g |-> [ members |-> {"u1"},
            proposedProducts |-> <<[_id |-> "p", votes |-> InitialVotes]>> ],
    k |-> [ members |-> {"u1"} ] ]

\* Group.findById(id) when the store answers: a copy of the document
FindGroup(gs, id) == IF id \in DOMAIN gs THEN gs[id] ELSE Null

\* proposedProducts.findIndex(product => product._id.toString() === id),
\* 1-based; 0 stands for -1
FindIndex(products, id) ==
  IF \E i \in 1..Len(products) : products[i]._id = id
  THEN CHOOSE i \in 1..Len(products) :
         products[i]._id = id /\ \A j \in 1..(i - 1) : products[j]._id # id
  ELSE 0

\* group.save() of a document whose only modified path is
\* proposedProducts.<i>.votes: that path is set to the value of the document
SaveVotes(gs, id, doc, i) ==
  [gs EXCEPT ![id].proposedProducts[i].votes = doc.proposedProducts[i].votes]

\* how many vote requests were sent, how many were answered 200
NoVotes == [started |-> 0, recorded |-> 0]

---------------------------------------------------------------------------
(* jsonwebtoken *)

Signature(payload, secret) == [key |-> secret, over |-> payload]

\* jwt.sign(payload, secret, {expiresIn: '7d'}) at time t (ms)
JwtSign(payload, secret, t) ==
  LET iat  == t \div 1000
      full == [id |-> payload.id, iat |-> iat, exp |-> iat + sevenDaysInSeconds]
  IN  <<"jwt", full, Signature(full, secret)>>

IsJwt(token) == Len(token) = 3 /\ token[1] = "jwt"

Has(payload, field) == field \in DOMAIN payload

\* jwt.verify(token, secret) at time t (ms): the payload, or Null for a throw
JwtVerifyOk(token, secret, t) ==
  /\ IsJwt(token)
  /\ token[3] = Signature(token[2], secret)
  /\ Has(token[2], "exp") => (t \div 1000) < token[2].exp

JwtVerify(token, secret, t) ==
  IF JwtVerifyOk(token, secret, t) THEN token[2] ELSE Null

---------------------------------------------------------------------------
(* authJwt.js: decodeToken *)

\* variant: the Authorization header is looked at before the cookie
ExtractToken_headerFirst(cookie, authorization) ==
  IF authorization # Absent /\ StartsWith(authorization, Bearer7)
  THEN Substring(authorization, 7)
  ELSE IF Truthy(cookie) THEN cookie
       ELSE Absent

\* lines 14-23: the credential string the request is resolved from
ExtractToken(cookie, authorization) ==
  IF Truthy(cookie) THEN cookie
  ELSE IF authorization # Absent /\ StartsWith(authorization, Bearer7)
       THEN Substring(authorization, 7)
       ELSE Absent

\* variant: jwt.decode in place of jwt.verify
VerifyToken_decodeOnly(token, t) ==
  IF ~Truthy(token) THEN Null
  ELSE IF IsJwt(token) THEN token[2] ELSE Null

\* lines 25-36: nothing without a token, else the verified payload or nothing
VerifyToken(token, t) ==
  IF ~Truthy(token) THEN Null ELSE JwtVerify(token, JWT_SECRET, t)

decodeToken(cookie, authorization, t) ==
  VerifyToken(ExtractToken(cookie, authorization), t)

\* `decoded && decoded.id`
HasSubject(decoded) ==
  decoded # Null /\ Has(decoded, "id") /\ decoded.id # ""

---------------------------------------------------------------------------
(* authJwt.js: renewTokenIfNecessary *)

\* variant: `<=` in place of `<`
RenewalDue_inclusive(decoded, t) ==
  /\ Has(decoded, "exp")
  /\ decoded.exp # 0
  /\ decoded.exp - (t \div 1000) <= oneDayInSeconds

\* lines 46-50: decoded.exp && (decoded.exp - nowInSeconds < oneDayInSeconds),
\* where nowInSeconds = t / 1000 is a fraction: with t = 1000 * s + ms the
\* difference is below a whole number d of seconds iff exp - s < d, or
\* exp - s = d and ms > 0
RenewalDue(decoded, t) ==
  /\ Has(decoded, "exp")
  /\ decoded.exp # 0
  /\ \/ decoded.exp - (t \div 1000) < oneDayInSeconds
     \/ /\ decoded.exp - (t \div 1000) = oneDayInSeconds
        /\ t % 1000 > 0

\* variant: the replacement is signed for one day
RenewedToken_oneDay(decoded, t) ==
  LET iat  == t \div 1000
      full == [id |-> decoded.id, iat |-> iat, exp |-> iat + oneDayInSeconds]
  IN  <<"jwt", full, Signature(full, JWT_SECRET)>>

\* lines 53-55: the replacement credential
RenewedToken(decoded, t) == JwtSign([id |-> decoded.id], JWT_SECRET, t)

\* the cookies renewTokenIfNecessary writes at time t; `fault` says whether
\* signing or res.cookie throws
renewTokenIfNecessary(decoded, t, fault) ==
  IF RenewalDue(decoded, t)
  THEN IF fault
       THEN [written |-> <<>>, threw |-> TRUE]
       ELSE [written |-> <<RenewedToken(decoded, t)>>, threw |-> FALSE]
  ELSE [written |-> <<>>, threw |-> FALSE]

---------------------------------------------------------------------------
(* Requests: credentials, headers and URLs a client sends *)

\* a credential the server issued for `id`, expiring at `exp` (seconds)
Issued(id, exp) ==
  LET p == [id |-> id, iat |-> exp - sevenDaysInSeconds, exp |-> exp]
  IN  <<"jwt", p, Signature(p, JWT_SECRET)>>

\* signed by the server without an expiry
IssuedNoExp(id) ==
  LET p == [id |-> id, iat |-> StartSec - 1]
  IN  <<"jwt", p, Signature(p, JWT_SECRET)>>

\* signed by the server, payload without id
IssuedNoId(exp) ==
  LET p == [iat |-> exp - sevenDaysInSeconds, exp |-> exp]
  IN  <<"jwt", p, Signature(p, JWT_SECRET)>>

\* signed with another key
Forged(id, exp) ==
  LET p == [id |-> id, iat |-> exp - sevenDaysInSeconds, exp |-> exp]
  IN  <<"jwt", p, Signature(p, OtherSecret)>>

\* the payload of a server credential changed after signing
Tampered(id, exp, as) ==
  LET p == [id |-> id, iat |-> exp - sevenDaysInSeconds, exp |-> exp]
  IN  <<"jwt", [p EXCEPT !.id = as], Signature(p, JWT_SECRET)>>

Garbage == <<"garbage">>

In23h59m == StartSec + (oneDayInSeconds - 60)

In24h == StartSec + oneDayInSeconds

In25h == StartSec + (25 * 60 * 60)

InitialCookies ==
  { Absent, <<>>, Garbage,
    Issued("u1", StartSec), Issued("u1", StartSec + 1),
    Issued("u1", In23h59m), Issued("u1", In24h), Issued("u1", In25h),
    Issued("u2", In23h59m), Issued("u2", In25h),
    IssuedNoExp("u1"), IssuedNoId(In23h59m),
    Forged("u1", In25h), Tampered("u1", In25h, "u2") }

Authorizations ==
  { Absent, Bearer7,
    Bearer7 \o Issued("u1", In25h), Bearer7 \o Issued("u2", In23h59m),
    Bearer7 \o Issued("u2", StartSec),
    Basic6 \o Issued("u1", In25h), LowerBearer7 \o Issued("u1", In25h) }

UrlDashboard == <<"/", "d", "a", "s", "h", "b", "o", "a", "r", "d">>

UrlProfileQuery ==
  <<"/", "p", "r", "o", "f", "i", "l", "e", "?", "t", "=", "a", "&", "%", "2">>

UrlApiProfile ==
  <<"/", "a", "p", "i", "/", "a", "u", "t", "h", "/", "p", "r", "o", "f", "i", "l", "e">>

Urls == {UrlDashboard, UrlProfileQuery, UrlApiProfile}

UrlLogin == <<"/", "l", "o", "g", "i", "n">>

UrlSignup == <<"/", "s", "i", "g", "n", "u", "p">>

UrlLogout == <<"/", "l", "o", "g", "o", "u", "t">>

UrlIndex == <<"/">>

\* server.js line 138 mounts the groups router at /api/groups
GroupsMount == <<"/", "a", "p", "i", "/", "g", "r", "o", "u", "p", "s", "/">>

VoteSegment == <<"/", "v", "o", "t", "e", "/">>

\* /api/groups/<groupId>/vote/<productId>, identifiers of one character
VoteUrl(groupId, productId) ==
  GroupsMount \o <<groupId>> \o VoteSegment \o <<productId>>

Reqs == {"r1", "r2"}

\* the requests of the sequential specification
SeqReqs == {"r1"}

\* req.userId before anything sets it
UnsetId == "<undefined>"

\* what is remembered of a client's previous request, before there is one
NoLast == [none |-> TRUE]

\* a client that has not started to navigate
IdleClient == [hops |-> 0, failed |-> FALSE, usable |-> FALSE, last |-> NoLast]

IdleReq ==
  [ pc |-> "idle", url |-> <<>>, cookie |-> Absent, authorization |-> Absent,
    decoded |-> Null, result |-> Null, user |-> Undefined, userId |-> UnsetId,
    localsUser |-> Undefined, group |-> Null, cookies |-> <<>>, sent |-> <<>>,
    log |-> <<>> ]

---------------------------------------------------------------------------
(* Routing: server.js mounts auth.routes.js and pages.routes.js at "/" *)

RECURSIVE PathOf(_)
\* req.path: the URL up to the query string
PathOf(url) ==
  IF url = <<>> \/ Head(url) = "?" THEN <<>>
  ELSE <<Head(url)>> \o PathOf(Tail(url))

PathDashboard == UrlDashboard

PathProfile == <<"/", "p", "r", "o", "f", "i", "l", "e">>

PathApiProfile == UrlApiProfile

\* the path matches /:groupId/vote/:productId below the groups mount
IsVotePath(path) ==
  /\ Len(path) = Len(GroupsMount) + 1 + Len(VoteSegment) + 1
  /\ SubSeq(path, 1, Len(GroupsMount)) = GroupsMount
  /\ SubSeq(path, Len(GroupsMount) + 2, Len(path) - 1) = VoteSegment

\* req.params.groupId, req.params.productId
GroupIdOf(url) == PathOf(url)[Len(GroupsMount) + 1]

ProductIdOf(url) == PathOf(url)[Len(PathOf(url))]

\* the guard in front of the route that serves the URL
RouteOf(url) ==
  IF PathOf(url) \in {PathDashboard, PathProfile} THEN "page"
  ELSE IF PathOf(url) = PathApiProfile THEN "api"
  ELSE IF PathOf(url) \in {UrlLogin, UrlSignup} THEN "login"
  ELSE IF PathOf(url) = UrlLogout THEN "logout"
  ELSE IF PathOf(url) = UrlIndex THEN "index"
  ELSE IF IsVotePath(PathOf(url)) THEN "vote"
  ELSE "none"

\* the routes that have requireAuthForApi in front of their handler
GuardedByApi == {"api", "vote"}

---------------------------------------------------------------------------
(* encodeURIComponent *)

UriUnreserved ==
  { "a", "b", "c", "d", "e", "f", "g", "h", "i", "j", "k", "l", "m", "n", "o",
    "p", "q", "r", "s", "t", "u", "v", "w", "x", "y", "z",
    "0", "1", "2", "3", "4", "5", "6", "7", "8", "9",
    "-", "_", ".", "!", "~", "*", "'", "(", ")" }

UriEscape(c) ==
  CASE c = "/" -> <<"%", "2", "F">>
    [] c = "?" -> <<"%", "3", "F">>
    [] c = "=" -> <<"%", "3", "D">>
    [] c = "&" -> <<"%", "2", "6">>
    [] c = "%" -> <<"%", "2", "5">>
    [] c = "+" -> <<"%", "2", "B">>
    [] c = " " -> <<"%", "2", "0">>

RECURSIVE encodeURIComponent(_)
encodeURIComponent(s) ==
  IF s = <<>> THEN <<>>
  ELSE (IF Head(s) \in UriUnreserved THEN <<Head(s)>> ELSE UriEscape(Head(s)))
       \o encodeURIComponent(Tail(s))

LoginRedirectPrefix ==
  <<"/", "l", "o", "g", "i", "n", "?", "r", "e", "d", "i", "r", "e", "c", "t", "=">>

LoginRedirectSuffix ==
  <<"&", "e", "r", "r", "o", "r", "=", "P", "l", "e", "a", "s", "e", "+", "l", "o", "g",
    "+", "i", "n", "+", "t", "o", "+", "v", "i", "e", "w", "+", "t", "h", "i", "s", "+",
    "p", "a", "g", "e">>

\* variant: the original URL is pasted into the query string as it is
LoginRedirect_raw(originalUrl) ==
  LoginRedirectPrefix \o originalUrl \o LoginRedirectSuffix

\* authJwt.js line 110
LoginRedirect(originalUrl) ==
  LoginRedirectPrefix \o encodeURIComponent(originalUrl) \o LoginRedirectSuffix

---------------------------------------------------------------------------
(* Responses *)

Json(status, message) ==
  [status |-> status, body |-> [success |-> FALSE, message |-> message]]

Redirect(location) == [status |-> 302, location |-> location]

Rendered(view) == [status |-> 200, view |-> view]

ApiNoTokenStatus == 403

ApiNoUserStatus == 401

ApiFaultStatus == 500

\* variants: the two failure statuses swapped
ApiNoToken_as401 == Json(ApiNoUserStatus, "Authentication failed. No token provided.")

ApiNoUser_as403 == Json(ApiNoTokenStatus, "Unauthorized. User not found.")

ApiNoToken == Json(ApiNoTokenStatus, "Authentication failed. No token provided.")

ApiNoUser == Json(ApiNoUserStatus, "Unauthorized. User not found.")

ApiFault == Json(ApiFaultStatus, "Server error during API authentication.")

---------------------------------------------------------------------------
(* State *)

Init ==
  /\ now = StartMs
  /\ ticks = 0
  /\ store = Users
  /\ jar \in {j \in [Reqs -> InitialCookies] :
                \A r \in Reqs \ SeqReqs : j[r] = Absent}
  /\ chain = [r \in Reqs |-> <<>>]
  /\ client = [r \in Reqs |-> IdleClient]
  /\ groups = InitialGroups
  /\ tally = NoVotes
  /\ reqs = [r \in Reqs |-> IdleReq]

Set(r, f) == reqs' = [reqs EXCEPT ![r] = f]

Event(q, stage, ev) == [q EXCEPT !.log = Append(@, <<stage, ev>>)]

\* the credential string the stages of request q resolve
Presented(q) == ExtractToken(q.cookie, q.authorization)

\* the renewals of one client's credential, oldest first
ChainAfter(ch, presented, written) ==
  IF written = <<>> THEN ch
  ELSE IF ch # <<>> /\ ch[Len(ch)] = presented
       THEN ch \o written
       ELSE <<presented>> \o written

\* the cookies request q gained on its way to q2
Written(q, q2) == SubSeq(q2.cookies, Len(q.cookies) + 1, Len(q2.cookies))

\* res.status(...).json(...), res.redirect(...), res.render(...)
Respond(q, stage, response) ==
  Event([q EXCEPT !.pc = "done", !.decoded = Null, !.result = Null,
                  !.sent = Append(@, response)],
        stage, "respond")

\* variant: the stage runs the renewal policy a second time
Renew_twice(q, stage, t, fault) ==
  LET renew == renewTokenIfNecessary(q.decoded, t, fault) IN
  IF renew.threw THEN Event(q, stage, "threw")
  ELSE IF renew.written = <<>> THEN q
  ELSE Event(Event([q EXCEPT !.cookies = @ \o renew.written \o renew.written],
                   stage, "cookie"),
             stage, "cookie")

\* renewTokenIfNecessary(res, decoded) called by `stage` at time t
Renew(q, stage, t, fault) ==
  LET renew == renewTokenIfNecessary(q.decoded, t, fault) IN
  IF renew.threw THEN Event(q, stage, "threw")
  ELSE IF renew.written = <<>> THEN q
  ELSE Event([q EXCEPT !.cookies = @ \o renew.written], stage, "cookie")

Threw(q, stage) == q.log # <<>> /\ q.log[Len(q.log)] = <<stage, "threw">>

---------------------------------------------------------------------------
(* The environment: the client, the clock, the owner of the user store *)

\* a client sends a request with the token cookie of its jar
NewRequest(r) ==
  /\ reqs[r].pc = "idle"
  /\ \E url \in Urls, authorization \in Authorizations :
       Set(r, [IdleReq EXCEPT !.pc = "global", !.url = url,
                              !.cookie = jar[r],
                              !.authorization = authorization])
  /\ UNCHANGED <<now, ticks, store, jar, chain, client, groups, tally>>

\* res.clearCookie('token'): a Set-Cookie with an empty value, expired
Cleared == <<"cleared">>

\* the token cookie of a jar after the Set-Cookie headers `cookies`, in order
Stored(cookie, cookies) ==
  IF cookies = <<>> THEN cookie
  ELSE IF cookies[Len(cookies)] = Cleared THEN Absent
  ELSE cookies[Len(cookies)]

\* the response reaches the client, which stores the last token cookie set
Finish(r) ==
  /\ reqs[r].pc = "done"
  /\ jar' = [jar EXCEPT ![r] = Stored(@, reqs[r].cookies)]
  /\ Set(r, IdleReq)
  /\ UNCHANGED <<now, ticks, store, chain, client, groups, tally>>

Tick ==
  /\ ticks < MaxTicks
  /\ \E d \in TickSteps : now' = now + d
  /\ ticks' = ticks + 1
  /\ UNCHANGED <<store, jar, chain, client, groups, tally, reqs>>

DeleteUser ==
  /\ \E u \in store : store' = store \ {u}
  /\ UNCHANGED <<now, ticks, jar, chain, client, groups, tally, reqs>>

---------------------------------------------------------------------------
(* authJwt.js: addUserToRequestAndLocals, mounted by server.js line 102 *)

\* line 95
GlobalNext(q) ==
  Event([q EXCEPT !.pc = "route", !.decoded = Null, !.result = Null],
        "global", "next")

\* lines 89-91: the catch block logs and falls through
GlobalCatch(q) == Event(q, "global", "caught")

\* lines 82-84
GlobalAttach(q, user) ==
  Event([q EXCEPT !.user = user, !.localsUser = user], "global", "attach")

\* variant: the lookup is started but not awaited before next()
GlobalResolve_noAwait(q, t) == GlobalNext(q)

\* lines 75-77: resolve; without a subject go straight to line 95
GlobalResolve(q, t) ==
  LET decoded == decodeToken(q.cookie, q.authorization, t) IN
  IF HasSubject(decoded)
  THEN Event([q EXCEPT !.pc = "global_await", !.decoded = decoded],
             "global", "lookup")
  ELSE GlobalNext(q)

\* variant: no try/catch around the lookup and the renewal
GlobalContinue_noCatch(q, t, fault) ==
  IF q.result = Rejected THEN Event([q EXCEPT !.pc = "unhandled"], "global", "threw")
  ELSE IF q.result = Null THEN GlobalNext(q)
  ELSE LET renewed == Renew(GlobalAttach(q, q.result), "global", t, fault) IN
       IF Threw(renewed, "global") THEN [renewed EXCEPT !.pc = "unhandled"]
       ELSE GlobalNext(renewed)

\* variant: the renewal policy runs before `if (user)`
GlobalContinue_renewFirst(q, t, fault) ==
  IF q.result = Rejected THEN GlobalNext(GlobalCatch(q))
  ELSE LET renewed == Renew(q, "global", t, fault) IN
       IF Threw(renewed, "global") THEN GlobalNext(GlobalCatch(renewed))
       ELSE IF q.result = Null THEN GlobalNext(renewed)
       ELSE GlobalNext(GlobalAttach(renewed, q.result))

\* lines 80-95, once the lookup of line 79 has settled
GlobalContinue(q, t, fault) ==
  IF q.result = Rejected THEN GlobalNext(GlobalCatch(q))
  ELSE IF q.result = Null THEN GlobalNext(q)
  ELSE LET renewed == Renew(GlobalAttach(q, q.result), "global", t, fault) IN
       IF Threw(renewed, "global") THEN GlobalNext(GlobalCatch(renewed))
       ELSE GlobalNext(renewed)

GlobalStart(r) ==
  /\ reqs[r].pc = "global"
  /\ Set(r, GlobalResolve(reqs[r], now))
  /\ UNCHANGED <<now, ticks, store, jar, chain, client, groups, tally>>

\* variant: `decoded` is a variable of the module, shared by the requests in
\* flight, so the lookup uses the payload resolved last by any of them
GlobalLookup_shared(r) ==
  LET q == reqs[r] IN
  /\ q.pc = "global_await"
  /\ \E other \in Reqs, rejected \in BOOLEAN :
       /\ reqs[other].decoded # Null
       /\ LET doc == FindById(store, reqs[other].decoded.id) IN
          Set(r, [q EXCEPT !.pc = "global_resume",
                           !.result = IF rejected THEN Rejected
                                      ELSE IF doc = Null THEN Null
                                      ELSE SelectMinusPassword(doc)])
  /\ UNCHANGED <<now, ticks, store, jar, chain, client, groups, tally>>

\* line 79: User.findById(decoded.id).select('-password') settles
GlobalLookup(r) ==
  LET q == reqs[r] IN
  /\ q.pc = "global_await"
  /\ \E rejected \in BOOLEAN :
       LET doc == FindById(store, q.decoded.id) IN
       Set(r, [q EXCEPT !.pc = "global_resume",
                        !.result = IF rejected THEN Rejected
                                   ELSE IF doc = Null THEN Null
                                   ELSE SelectMinusPassword(doc)])
  /\ UNCHANGED <<now, ticks, store, jar, chain, client, groups, tally>>

GlobalResume(r) ==
  LET q == reqs[r] IN
  /\ q.pc = "global_resume"
  /\ \E fault \in BOOLEAN :
       LET q2 == GlobalContinue(q, now, fault) IN
       /\ Set(r, q2)
       /\ chain' = [chain EXCEPT ![r] = ChainAfter(@, Presented(q), Written(q, q2))]
  /\ UNCHANGED <<now, ticks, store, jar, client, groups, tally>>

---------------------------------------------------------------------------
(* authJwt.js: requireAuthForPage, and the page handlers behind it *)

\* lines 103-111
PageGuard(q) ==
  IF q.user # Undefined
  THEN Event([q EXCEPT !.pc = "handler"], "page", "next")
  ELSE Respond(q, "page", Redirect(LoginRedirect(q.url)))

requireAuthForPage(r) ==
  /\ reqs[r].pc = "route"
  /\ RouteOf(reqs[r].url) = "page"
  /\ Set(r, PageGuard(reqs[r]))
  /\ UNCHANGED <<now, ticks, store, jar, chain, client, groups, tally>>

\* pages.routes.js: res.render of a guarded page
PageHandler(r) ==
  /\ reqs[r].pc = "handler"
  /\ RouteOf(reqs[r].url) = "page"
  /\ Set(r, Respond(reqs[r], "handler", Rendered(PathOf(reqs[r].url))))
  /\ UNCHANGED <<now, ticks, store, jar, chain, client, groups, tally>>

---------------------------------------------------------------------------
(* authJwt.js: requireAuthForApi, and the controllers behind it *)

\* line 137
ApiNext(q) ==
  Event([q EXCEPT !.pc = "handler", !.decoded = Null, !.result = Null],
        "api", "next")

\* variant: the catch block passes the error on instead of answering
ApiCatch_rethrow(q) == Event([q EXCEPT !.pc = "unhandled"], "api", "caught")

\* lines 138-141: the catch block answers 500
ApiCatch(q) == Respond(Event(q, "api", "caught"), "api", ApiFault)

\* variant: req.userId is not set
ApiAttach_noUserId(q, user) ==
  Event([q EXCEPT !.user = user], "api", "attach")

\* lines 131-132
ApiAttach(q, user) ==
  Event([q EXCEPT !.user = user, !.userId = user._id], "api", "attach")

\* lines 118-122: resolve; without a subject answer 403
ApiResolve(q, t) ==
  LET decoded == decodeToken(q.cookie, q.authorization, t) IN
  IF ~HasSubject(decoded)
  THEN Respond(q, "api", ApiNoToken)
  ELSE Event([q EXCEPT !.pc = "api_await", !.decoded = decoded], "api", "lookup")

\* lines 126-141, once the lookup of line 125 has settled
ApiContinue(q, t, fault) ==
  IF q.result = Rejected THEN ApiCatch(q)
  ELSE IF q.result = Null THEN Respond(q, "api", ApiNoUser)
  ELSE LET renewed == Renew(ApiAttach(q, q.result), "api", t, fault) IN
       IF Threw(renewed, "api") THEN ApiCatch(renewed)
       ELSE ApiNext(renewed)

ApiGuardStart(r) ==
  /\ reqs[r].pc = "route"
  /\ RouteOf(reqs[r].url) \in GuardedByApi
  /\ Set(r, ApiResolve(reqs[r], now))
  /\ UNCHANGED <<now, ticks, store, jar, chain, client, groups, tally>>

\* line 125: User.findById(decoded.id) settles
ApiLookup(r) ==
  LET q == reqs[r] IN
  /\ q.pc = "api_await"
  /\ \E rejected \in BOOLEAN :
       Set(r, [q EXCEPT !.pc = "api_resume",
                        !.result = IF rejected THEN Rejected
                                   ELSE FindById(store, q.decoded.id)])
  /\ UNCHANGED <<now, ticks, store, jar, chain, client, groups, tally>>

ApiGuardResume(r) ==
  LET q == reqs[r] IN
  /\ q.pc = "api_resume"
  /\ \E fault \in BOOLEAN :
       LET q2 == ApiContinue(q, now, fault) IN
       /\ Set(r, q2)
       /\ chain' = [chain EXCEPT ![r] = ChainAfter(@, Presented(q), Written(q, q2))]
  /\ UNCHANGED <<now, ticks, store, jar, client, groups, tally>>

\* auth.routes.js lines 44-47: the controller behind the guard answers
ApiHandler(r) ==
  /\ reqs[r].pc = "handler"
  /\ RouteOf(reqs[r].url) = "api"
  /\ Set(r, Respond(reqs[r], "handler",
                    [status |-> 200, handler |-> PathOf(reqs[r].url)]))
  /\ UNCHANGED <<now, ticks, store, jar, chain, client, groups, tally>>

---------------------------------------------------------------------------
(* Specification: one request at a time *)

Next ==
  \/ \E r \in SeqReqs : NewRequest(r)
  \/ \E r \in SeqReqs : GlobalStart(r)
  \/ \E r \in SeqReqs : GlobalLookup(r)
  \/ \E r \in SeqReqs : GlobalResume(r)
  \/ \E r \in SeqReqs : requireAuthForPage(r)
  \/ \E r \in SeqReqs : PageHandler(r)
  \/ \E r \in SeqReqs : ApiGuardStart(r)
  \/ \E r \in SeqReqs : ApiLookup(r)
  \/ \E r \in SeqReqs : ApiGuardResume(r)
  \/ \E r \in SeqReqs : ApiHandler(r)
  \/ \E r \in SeqReqs : Finish(r)
  \/ Tick
  \/ DeleteUser

Spec == Init /\ [][Next]_vars

---------------------------------------------------------------------------
(* auth.routes.js and pages.routes.js: the pages without a guard *)

\* variant: the redirect to the dashboard is taken without a user
AuthPage_inverted(q) ==
  IF q.user = Undefined
  THEN Respond(q, "handler", Redirect(UrlDashboard))
  ELSE Respond(q, "handler", Rendered(PathOf(q.url)))

\* auth.routes.js lines 11-29: GET /login and GET /signup
AuthPage(q) ==
  IF q.user # Undefined
  THEN Respond(q, "handler", Redirect(UrlDashboard))
  ELSE Respond(q, "handler", Rendered(PathOf(q.url)))

\* variant: the token cookie is not cleared
LogoutPage_noClear(q) == Respond(q, "handler", Redirect(UrlIndex))

\* auth.routes.js lines 31-34: GET /logout
LogoutPage(q) ==
  Respond(Event([q EXCEPT !.cookies = Append(@, Cleared)], "handler", "clear"),
          "handler", Redirect(UrlIndex))

LoginOrSignup(r) ==
  /\ reqs[r].pc = "route"
  /\ RouteOf(reqs[r].url) = "login"
  /\ Set(r, AuthPage(reqs[r]))
  /\ UNCHANGED <<now, ticks, store, jar, chain, client, groups, tally>>

Logout(r) ==
  /\ reqs[r].pc = "route"
  /\ RouteOf(reqs[r].url) = "logout"
  /\ Set(r, LogoutPage(reqs[r]))
  /\ UNCHANGED <<now, ticks, store, jar, chain, client, groups, tally>>

\* pages.routes.js lines 8-12: GET /
IndexPage(r) ==
  /\ reqs[r].pc = "route"
  /\ RouteOf(reqs[r].url) = "index"
  /\ Set(r, Respond(reqs[r], "handler", Rendered(PathOf(reqs[r].url))))
  /\ UNCHANGED <<now, ticks, store, jar, chain, client, groups, tally>>

---------------------------------------------------------------------------
(* Specification: one browser that keeps its token cookie, follows
   redirects and sends one request after the other; the user store does
   not change *)

\* how many redirects in a row the browser follows
MaxHops == 3

ClientCookies ==
  { Absent, Issued("u1", In23h59m), Issued("u1", In24h), Issued("u1", In25h),
    Issued("u2", In25h), IssuedNoExp("u1"), Forged("u1", In25h) }

ClientAuthorizations == {Absent, Bearer7 \o Issued("u1", In25h)}

ClientUrls == {UrlDashboard, UrlLogin, UrlSignup, UrlLogout, UrlIndex}

ClientStores == {Users, {"u2"}}

\* the lookup of the global middleware was rejected
LookupRejected(q) ==
  \E i \in 2..Len(q.log) :
    q.log[i] = <<"global", "caught">> /\ q.log[i - 1] = <<"global", "lookup">>

\* what the client side remembers of an answered request
Summary(q) ==
  [ cred |-> Presented(q), user |-> q.localsUser,
    wrote |-> \E i \in 1..Len(q.cookies) : IsJwt(q.cookies[i]),
    rejected |-> LookupRejected(q) ]

\* the credential is verifiable at time t
Usable(token, t) == JwtVerifyOk(token, JWT_SECRET, t)

InitClient ==
  /\ now = StartMs
  /\ ticks = 0
  /\ store \in ClientStores
  /\ jar \in {j \in [Reqs -> ClientCookies] :
                \A r \in Reqs \ SeqReqs : j[r] = Absent}
  /\ chain = [r \in Reqs |-> <<>>]
  /\ client = [r \in Reqs |-> IdleClient]
  /\ groups = InitialGroups
  /\ tally = NoVotes
  /\ reqs = [r \in Reqs |-> IdleReq]

\* the user opens a URL: a navigation starts
ClientRequest(r) ==
  /\ reqs[r].pc = "idle"
  /\ \E url \in ClientUrls, authorization \in ClientAuthorizations :
       /\ Set(r, [IdleReq EXCEPT !.pc = "global", !.url = url,
                                 !.cookie = jar[r],
                                 !.authorization = authorization])
       /\ client' = [client EXCEPT ![r] =
                       [@ EXCEPT !.hops = 0, !.failed = FALSE,
                                 !.usable = Usable(ExtractToken(jar[r], authorization),
                                                   now)]]
  /\ UNCHANGED <<now, ticks, store, jar, chain, groups, tally>>

\* a response that is not followed reaches the browser: the navigation ends
ClientFinish(r) ==
  LET q == reqs[r] IN
  /\ q.pc = "done"
  /\ jar' = [jar EXCEPT ![r] = Stored(@, q.cookies)]
  /\ client' = [client EXCEPT ![r] = [IdleClient EXCEPT !.last = Summary(q)]]
  /\ Set(r, IdleReq)
  /\ UNCHANGED <<now, ticks, store, chain, groups, tally>>

\* the browser stores the cookies of a 302 and requests its Location
FollowRedirect(r) ==
  LET q == reqs[r] IN
  /\ q.pc = "done"
  /\ Len(q.sent) = 1
  /\ q.sent[1].status = 302
  /\ client[r].hops < MaxHops
  /\ jar' = [jar EXCEPT ![r] = Stored(@, q.cookies)]
  /\ client' = [client EXCEPT ![r] =
                  [@ EXCEPT !.hops = @ + 1,
                            !.failed = @ \/ LookupRejected(q),
                            !.last = Summary(q)]]
  /\ Set(r, [IdleReq EXCEPT !.pc = "global", !.url = q.sent[1].location,
                            !.cookie = Stored(jar[r], q.cookies),
                            !.authorization = q.authorization])
  /\ UNCHANGED <<now, ticks, store, chain, groups, tally>>

NextClient ==
  \/ \E r \in SeqReqs : ClientRequest(r)
  \/ \E r \in SeqReqs : GlobalStart(r)
  \/ \E r \in SeqReqs : GlobalLookup(r)
  \/ \E r \in SeqReqs : GlobalResume(r)
  \/ \E r \in SeqReqs : requireAuthForPage(r)
  \/ \E r \in SeqReqs : PageHandler(r)
  \/ \E r \in SeqReqs : LoginOrSignup(r)
  \/ \E r \in SeqReqs : Logout(r)
  \/ \E r \in SeqReqs : IndexPage(r)
  \/ \E r \in SeqReqs : FollowRedirect(r)
  \/ \E r \in SeqReqs : ClientFinish(r)
  \/ Tick

SpecClient == InitClient /\ [][NextClient]_vars

---------------------------------------------------------------------------
(* Specification: two clients whose requests are in flight at the same
   time; a step is one request running up to its next await or response *)

ConcCookies ==
  {Issued("u1", In23h59m), Issued("u2", In23h59m), Issued("u2", In25h)}

ConcUrls == {UrlDashboard, UrlApiProfile}

InitConc ==
  /\ now = StartMs
  /\ ticks = 0
  /\ store = Users
  /\ jar \in [Reqs -> ConcCookies]
  /\ chain = [r \in Reqs |-> <<>>]
  /\ client = [r \in Reqs |-> IdleClient]
  /\ groups = InitialGroups
  /\ tally = NoVotes
  /\ reqs = [r \in Reqs |-> IdleReq]

ConcRequest(r) ==
  /\ reqs[r].pc = "idle"
  /\ \E url \in ConcUrls :
       Set(r, [IdleReq EXCEPT !.pc = "global", !.url = url, !.cookie = jar[r]])
  /\ UNCHANGED <<now, ticks, store, jar, chain, client, groups, tally>>

NextConc ==
  \/ \E r \in Reqs : ConcRequest(r)
  \/ \E r \in Reqs : GlobalStart(r)
  \/ \E r \in Reqs : GlobalLookup(r)
  \/ \E r \in Reqs : GlobalResume(r)
  \/ \E r \in Reqs : requireAuthForPage(r)
  \/ \E r \in Reqs : PageHandler(r)
  \/ \E r \in Reqs : ApiGuardStart(r)
  \/ \E r \in Reqs : ApiLookup(r)
  \/ \E r \in Reqs : ApiGuardResume(r)
  \/ \E r \in Reqs : ApiHandler(r)
  \/ \E r \in Reqs : Finish(r)
  \/ DeleteUser

SpecConc == InitConc /\ [][NextConc]_vars

---------------------------------------------------------------------------
(* The groups router: POST /:groupId/vote/:productId behind requireAuthForApi *)

VoteJson(status, message) ==
  [status |-> status, body |-> [success |-> FALSE, message |-> message]]

VoteRecorded(votes) ==
  [ status |-> 200,
    body |-> [success |-> TRUE, message |-> "Vote recorded successfully",
              votes |-> votes] ]

\* the handler answers and drops its copy of the document
VoteRespond(q, response) == Respond([q EXCEPT !.group = Null], "vote", response)

\* lines 216-222: the catch block
VoteCatch(q) ==
  VoteRespond(Event(q, "vote", "caught"), VoteJson(500, "Failed to record vote"))

\* lines 170-206, once findById has answered `group`: the answers without a
\* write, or the increment on the loaded document and the call of save
VoteDecide(q, group) ==
  IF group = Null THEN VoteRespond(q, VoteJson(404, "Group not found"))
  ELSE IF q.userId \notin group.members
  THEN VoteRespond(q, VoteJson(403, "You must be a member to vote on products"))
  ELSE IF ~Has(group, "proposedProducts")
  THEN VoteRespond(q, VoteJson(404, "No proposed products found"))
  ELSE LET productIndex == FindIndex(group.proposedProducts, ProductIdOf(q.url)) IN
       IF productIndex = 0
       THEN VoteRespond(q, VoteJson(404, "Product not found"))
       ELSE Event([q EXCEPT !.pc = "vote_save",
                            !.group = [group EXCEPT
                                         !.proposedProducts[productIndex].votes = @ + 1]],
                  "vote", "save")

\* line 169: findById is called
VoteStart(r) ==
  /\ reqs[r].pc = "handler"
  /\ RouteOf(reqs[r].url) = "vote"
  /\ Set(r, Event([reqs[r] EXCEPT !.pc = "vote_await"], "vote", "find"))
  /\ UNCHANGED <<now, ticks, store, jar, chain, client, groups, tally>>

\* line 169 settles and the handler runs on to its answer or to save
VoteFound(r) ==
  LET q == reqs[r] IN
  /\ q.pc = "vote_await"
  /\ \E rejected \in BOOLEAN :
       Set(r, IF rejected THEN VoteCatch(q)
              ELSE VoteDecide(q, FindGroup(groups, GroupIdOf(q.url))))
  /\ UNCHANGED <<now, ticks, store, jar, chain, client, groups, tally>>

\* line 206 settles: the write reaches the store and the handler answers 200
\* with the count of its own document, or save rejects and the catch answers
VoteSaved(r) ==
  LET q            == reqs[r]
      productIndex == FindIndex(q.group.proposedProducts, ProductIdOf(q.url))
  IN  /\ q.pc = "vote_save"
      /\ \E rejected \in BOOLEAN :
           IF rejected
           THEN /\ Set(r, VoteCatch(q))
                /\ UNCHANGED <<groups, tally>>
           ELSE /\ groups' = SaveVotes(groups, GroupIdOf(q.url), q.group, productIndex)
                /\ tally' = [tally EXCEPT !.recorded = @ + 1]
                /\ Set(r, VoteRespond(q, VoteRecorded(
                                           q.group.proposedProducts[productIndex].votes)))
      /\ UNCHANGED <<now, ticks, store, jar, chain, client>>

---------------------------------------------------------------------------
(* Specification: two clients voting at the same time; a step is one
   request running up to its next await or response *)

\* how many vote requests the clients send in a behaviour
MaxVoteRequests == 3

\* u1 is a member of the groups, u2 is not
VoteCookies == {Issued("u1", In25h), Issued("u2", In25h)}

VoteUrls == {VoteUrl(g, p) : g \in {"g", "h", "k"}, p \in {"p", "q"}}

InitVote ==
  /\ now = StartMs
  /\ ticks = 0
  /\ store = Users
  /\ jar \in [Reqs -> VoteCookies]
  /\ chain = [r \in Reqs |-> <<>>]
  /\ client = [r \in Reqs |-> IdleClient]
  /\ groups = InitialGroups
  /\ tally = NoVotes
  /\ reqs = [r \in Reqs |-> IdleReq]

VoteRequest(r) ==
  /\ reqs[r].pc = "idle"
  /\ tally.started < MaxVoteRequests
  /\ \E url \in VoteUrls :
       Set(r, [IdleReq EXCEPT !.pc = "global", !.url = url, !.cookie = jar[r]])
  /\ tally' = [tally EXCEPT !.started = @ + 1]
  /\ UNCHANGED <<now, ticks, store, jar, chain, client, groups>>

NextVote ==
  \/ \E r \in Reqs : VoteRequest(r)
  \/ \E r \in Reqs : GlobalStart(r)
  \/ \E r \in Reqs : GlobalLookup(r)
  \/ \E r \in Reqs : GlobalResume(r)
  \/ \E r \in Reqs : ApiGuardStart(r)
  \/ \E r \in Reqs : ApiLookup(r)
  \/ \E r \in Reqs : ApiGuardResume(r)
  \/ \E r \in Reqs : VoteStart(r)
  \/ \E r \in Reqs : VoteFound(r)
  \/ \E r \in Reqs : VoteSaved(r)
  \/ \E r \in Reqs : Finish(r)

SpecVote == InitVote /\ [][NextVote]_vars

---------------------------------------------------------------------------
(* Vocabulary of the properties *)

\* the events `stage` has logged for request q
EventsOf(q, stage) ==
  LET own == SelectSeq(q.log, LAMBDA e : e[1] = stage)
  IN  [i \in 1..Len(own) |-> own[i][2]]

Count(events, ev) == Len(SelectSeq(events, LAMBDA e : e = ev))

\* a step of request r that starts in pc
StepFrom(r, pc) == reqs[r].pc = pc /\ reqs'[r] # reqs[r]

\* the credential is absent, malformed, wrongly signed or expired at time t,
\* or its payload has no id
Unusable(token, t) ==
  \/ token = Absent
  \/ token = <<>>
  \/ ~IsJwt(token)
  \/ /\ IsJwt(token)
     /\ \/ token[3].key # JWT_SECRET
        \/ token[3].over # token[2]
        \/ Has(token[2], "exp") /\ token[2].exp <= t \div 1000
        \/ ~Has(token[2], "id")

GenericFailure(response, status) ==
  /\ DOMAIN response = {"status", "body"}
  /\ response.status = status
  /\ DOMAIN response.body = {"success", "message"}
  /\ response.body.success = FALSE

\* what a stage leaves alone when it attaches nothing and writes no cookie
NothingAttached(q, q2) ==
  /\ q2.user = q.user
  /\ q2.userId = q.userId
  /\ q2.localsUser = q.localsUser
  /\ q2.cookies = q.cookies

---------------------------------------------------------------------------
(* C1: when the API guard resolves a credential that is absent, malformed,
   wrongly signed, expired or without id, it answers 403 with
   {success:false, message}, and neither looks the user up, nor attaches a
   user, nor calls the next handler. *)

C1_Step(r) ==
  (/\ StepFrom(r, "route")
   /\ RouteOf(reqs[r].url) = "api"
   /\ Unusable(Presented(reqs[r]), now))
  => /\ reqs'[r].pc = "done"
     /\ Len(reqs'[r].sent) = Len(reqs[r].sent) + 1
     /\ GenericFailure(reqs'[r].sent[Len(reqs'[r].sent)], 403)
     /\ EventsOf(reqs'[r], "api") = <<"respond">>
     /\ NothingAttached(reqs[r], reqs'[r])

C1_NoCredentialIs403 == [][\A r \in Reqs : C1_Step(r)]_vars

\* a correctly signed credential that has expired was answered 403
C1_Witness ==
  \E r \in Reqs :
    /\ reqs[r].pc = "done"
    /\ reqs[r].sent = <<ApiNoToken>>
    /\ reqs[r].cookie = Issued("u1", StartSec)

---------------------------------------------------------------------------
(* C2: when the credential verified but the store has no record for its
   subject, the API guard answers 401 with {success:false, message}, does
   not call the next handler, sets neither req.user nor req.userId and
   writes no cookie. *)

C2_Step(r) ==
  (/\ StepFrom(r, "api_resume")
   /\ reqs[r].result = Null)
  => /\ reqs'[r].pc = "done"
     /\ Len(reqs'[r].sent) = Len(reqs[r].sent) + 1
     /\ GenericFailure(reqs'[r].sent[Len(reqs'[r].sent)], 401)
     /\ EventsOf(reqs'[r], "api") = <<"lookup", "respond">>
     /\ NothingAttached(reqs[r], reqs'[r])

C2_MissingUserIs401 == [][\A r \in Reqs : C2_Step(r)]_vars

\* a credential that verifies for a deleted user was answered 401
C2_Witness ==
  \E r \in Reqs :
    /\ reqs[r].pc = "done"
    /\ reqs[r].sent = <<ApiNoUser>>
    /\ JwtVerifyOk(Presented(reqs[r]), JWT_SECRET, now)
    /\ Presented(reqs[r])[2].id \notin store

---------------------------------------------------------------------------
(* C3: a failure inside the API guard (the lookup rejecting, the renewal
   throwing) ends in exactly one 500 response with a generic payload; no
   fault leaves the guard, and the guard never both answers and calls the
   next handler. *)

C3_FaultIs500 ==
  \A r \in Reqs :
    LET q   == reqs[r]
        api == EventsOf(q, "api")
    IN  /\ q.pc # "unhandled"
        /\ Count(api, "respond") + Count(api, "next") <= 1
        /\ (q.pc = "api_resume" /\ q.result = Rejected) => api = <<"lookup">>
        /\ Count(api, "caught") + Count(api, "threw") > 0
             => /\ q.pc = "done"
                /\ Count(api, "respond") = 1
                /\ Count(api, "caught") = 1
                /\ Len(q.sent) = 1
                /\ GenericFailure(q.sent[1], 500)

C3_Step(r) ==
  (StepFrom(r, "api_resume") /\ reqs[r].result = Rejected)
  => Count(EventsOf(reqs'[r], "api"), "caught") = 1

C3_Property == []C3_FaultIs500 /\ [][\A r \in Reqs : C3_Step(r)]_vars

\* the lookup of the API guard was rejected
C3_Witness ==
  \E r \in Reqs :
    /\ reqs[r].pc = "done"
    /\ reqs[r].sent = <<ApiFault>>
    /\ EventsOf(reqs[r], "api") = <<"lookup", "caught", "respond">>

---------------------------------------------------------------------------
(* C4: whenever a handler behind requireAuthForApi runs, req.user and
   req.userId are set, req.userId is the identifier of req.user, and it is
   the subject id of the credential the guard verified; the guard attaches,
   then runs the renewal policy, then continues. *)

HandlerReached(q) ==
  q.pc = "handler" \/ Count(EventsOf(q, "handler"), "respond") > 0

C4_HandlerSeesVerifiedUser ==
  \A r \in Reqs :
    LET q == reqs[r] IN
    (RouteOf(q.url) = "api" /\ HandlerReached(q))
    => /\ q.user # Undefined
       /\ q.userId # UnsetId
       /\ q.userId = q.user._id
       /\ IsJwt(Presented(q))
       /\ q.userId = Presented(q)[2].id
       /\ EventsOf(q, "api") \in { <<"lookup", "attach", "next">>,
                                   <<"lookup", "attach", "cookie", "next">> }

\* an API handler is about to run after the guard renewed the credential
C4_Witness ==
  \E r \in Reqs :
    /\ reqs[r].pc = "handler"
    /\ RouteOf(reqs[r].url) = "api"
    /\ EventsOf(reqs[r], "api") = <<"lookup", "attach", "cookie", "next">>

---------------------------------------------------------------------------
(* C5: requireAuthForPage either calls the next handler and sends nothing
   (a user is attached) or redirects to
   /login?redirect=<URL-encoded original URL>&error=<message> and does not
   call the next handler; a guarded page handler never runs without a
   user. *)

UriUnescape(pair) ==
  CASE pair = <<"2", "F">> -> "/"
    [] pair = <<"3", "F">> -> "?"
    [] pair = <<"3", "D">> -> "="
    [] pair = <<"2", "6">> -> "&"
    [] pair = <<"2", "5">> -> "%"
    [] pair = <<"2", "B">> -> "+"
    [] pair = <<"2", "0">> -> " "
    [] OTHER -> "URIError"

RECURSIVE decodeURIComponent(_)
decodeURIComponent(s) ==
  IF s = <<>> THEN <<>>
  ELSE IF Head(s) # "%" THEN <<Head(s)>> \o decodeURIComponent(Tail(s))
  ELSE IF Len(s) < 3 THEN <<"URIError">>
  ELSE <<UriUnescape(SubSeq(s, 2, 3))>> \o decodeURIComponent(SubSeq(s, 4, Len(s)))

RECURSIVE UntilAmpersand(_)
UntilAmpersand(s) ==
  IF s = <<>> \/ Head(s) = "&" THEN <<>>
  ELSE <<Head(s)>> \o UntilAmpersand(Tail(s))

\* the location is /login with two query parameters: redirect, which decodes
\* to the original URL, and the error message
LoginRedirectFor(location, originalUrl) ==
  /\ StartsWith(location, LoginRedirectPrefix)
  /\ LET rest  == Substring(location, Len(LoginRedirectPrefix))
         param == UntilAmpersand(rest)
     IN  /\ decodeURIComponent(param) = originalUrl
         /\ Substring(rest, Len(param)) = LoginRedirectSuffix

C5_Step(r) ==
  (StepFrom(r, "route") /\ RouteOf(reqs[r].url) = "page")
  => /\ NothingAttached(reqs[r], reqs'[r])
     /\ IF reqs[r].user # Undefined
        THEN /\ reqs'[r].pc = "handler"
             /\ reqs'[r].sent = reqs[r].sent
             /\ EventsOf(reqs'[r], "page") = <<"next">>
        ELSE /\ reqs'[r].pc = "done"
             /\ Len(reqs'[r].sent) = 1
             /\ DOMAIN reqs'[r].sent[1] = {"status", "location"}
             /\ reqs'[r].sent[1].status = 302
             /\ LoginRedirectFor(reqs'[r].sent[1].location, reqs[r].url)
             /\ EventsOf(reqs'[r], "page") = <<"respond">>

C5_PageHandlerHasUser ==
  \A r \in Reqs :
    (RouteOf(reqs[r].url) = "page" /\ HandlerReached(reqs[r]))
    => reqs[r].user # Undefined

C5_Property == []C5_PageHandlerHasUser /\ [][\A r \in Reqs : C5_Step(r)]_vars

\* a request for a page with a query string was redirected to the login page
C5_Witness ==
  \E r \in Reqs :
    /\ reqs[r].pc = "done"
    /\ reqs[r].url = UrlProfileQuery
    /\ Len(reqs[r].sent) = 1
    /\ reqs[r].sent[1].status = 302

---------------------------------------------------------------------------
(* C6: addUserToRequestAndLocals calls the next stage exactly once and
   never sends a response, whatever the outcome: no credential, invalid or
   expired credential, user not found, lookup failure, renewal failure,
   success.  Until it has called the next stage it can always take its
   next step, and once it has, it has called it exactly once. *)

InGlobal(q) == q.pc \in {"global", "global_await", "global_resume"}

C6_GlobalAlwaysContinues ==
  \A r \in Reqs :
    LET q      == reqs[r]
        global == EventsOf(q, "global")
    IN  /\ Count(global, "respond") = 0
        /\ InGlobal(q) => Count(global, "next") = 0 /\ q.sent = <<>>
        /\ InGlobal(q) => ENABLED (GlobalStart(r) \/ GlobalLookup(r) \/ GlobalResume(r))
        /\ (q.pc # "idle" /\ ~InGlobal(q))
             => /\ Count(global, "next") = 1
                /\ global[Len(global)] = "next"

C6_Step(r) ==
  (InGlobal(reqs[r]) /\ reqs'[r] # reqs[r])
  => /\ reqs'[r].pc \in {"global_await", "global_resume", "route"}
     /\ reqs'[r].sent = <<>>

C6_Property == []C6_GlobalAlwaysContinues /\ [][\A r \in Reqs : C6_Step(r)]_vars

\* the renewal threw inside the global middleware and the request went on
C6_Witness ==
  \E r \in Reqs :
    /\ reqs[r].pc = "route"
    /\ EventsOf(reqs[r], "global") = <<"lookup", "attach", "threw", "caught", "next">>

---------------------------------------------------------------------------
(* C7: when the lookup of addUserToRequestAndLocals throws or finds no
   record, the request proceeds with neither req.user nor res.locals.user
   set and with no renewal cookie written, whatever lifetime the
   credential has left. *)

C7_Step(r) ==
  (/\ StepFrom(r, "global_resume")
   /\ reqs[r].result \in {Null, Rejected})
  => /\ reqs'[r].pc = "route"
     /\ reqs'[r].user = Undefined
     /\ reqs'[r].localsUser = Undefined
     /\ reqs'[r].userId = UnsetId
     /\ reqs'[r].cookies = <<>>
     /\ reqs'[r].sent = <<>>

C7_FailedLookupIsAnonymous == [][\A r \in Reqs : C7_Step(r)]_vars

\* a credential due for renewal whose user is gone: no user, no cookie
C7_Witness ==
  \E r \in Reqs :
    /\ reqs[r].pc = "route"
    /\ reqs[r].cookie = Issued("u1", In23h59m)
    /\ "u1" \notin store
    /\ EventsOf(reqs[r], "global") = <<"lookup", "next">>
    /\ reqs[r].user = Undefined
    /\ reqs[r].cookies = <<>>

---------------------------------------------------------------------------
(* C8: a non-empty token cookie is the only credential verified, also when
   it is invalid and the Authorization header carries a valid one; the
   Bearer header is used only without a cookie credential; with neither
   the request resolves to nothing. *)

\* the stage resolved a subject and awaits the lookup
Resolved(q) == q.pc \in {"global_await", "api_await"}

Accepted(token, t) == JwtVerifyOk(token, JWT_SECRET, t) /\ Has(token[2], "id")

ResolvedFrom(q2, token, t) ==
  /\ Resolved(q2) <=> Accepted(token, t)
  /\ Resolved(q2) => q2.decoded = token[2]

C8_Step(r) ==
  LET q      == reqs[r]
      q2     == reqs'[r]
      cookie == q.cookie # Absent /\ Len(q.cookie) > 0
      bearer == /\ q.authorization # Absent
                /\ Len(q.authorization) >= 7
                /\ \A i \in 1..7 : q.authorization[i] = Bearer7[i]
  IN  (\/ StepFrom(r, "global")
       \/ StepFrom(r, "route") /\ RouteOf(q.url) = "api")
      => /\ cookie => ResolvedFrom(q2, q.cookie, now)
         /\ (~cookie /\ bearer)
              => ResolvedFrom(q2, SubSeq(q.authorization, 8, Len(q.authorization)), now)
         /\ (~cookie /\ ~bearer) => ~Resolved(q2)

C8_CookieBeforeHeader == [][\A r \in Reqs : C8_Step(r)]_vars

\* an invalid cookie next to a valid Bearer credential: answered 403
C8_Witness ==
  \E r \in Reqs :
    /\ reqs[r].pc = "done"
    /\ reqs[r].cookie = Forged("u1", In25h)
    /\ reqs[r].authorization = Bearer7 \o Issued("u1", In25h)
    /\ JwtVerifyOk(Issued("u1", In25h), JWT_SECRET, now)
    /\ reqs[r].sent = <<ApiNoToken>>

---------------------------------------------------------------------------
(* C9: the renewal policy writes a replacement token cookie if and only if
   the payload has an expiry and expiry - now is strictly below 24 hours:
   23h59m is renewed, exactly 24h and 25h are not, no expiry never is. *)

\* expiry - now, in milliseconds
RemainingMs(decoded, t) ==
  ((decoded.exp - (t \div 1000)) * 1000) - (t % 1000)

TwentyFourHoursMs == 24 * 60 * 60 * 1000

\* a stage resumes with the user found: the renewal policy runs in this step
RenewalRuns(r) ==
  /\ \/ StepFrom(r, "global_resume")
     \/ StepFrom(r, "api_resume")
  /\ reqs[r].result \notin {Null, Rejected}

C9_Step(r) ==
  LET q       == reqs[r]
      q2      == reqs'[r]
      written == Written(q, q2)
      threw   == \E i \in (Len(q.log) + 1)..Len(q2.log) : q2.log[i][2] = "threw"
      due     == /\ Has(q.decoded, "exp")
                 /\ RemainingMs(q.decoded, now) < TwentyFourHoursMs
  IN  RenewalRuns(r)
      => /\ Len(written) <= 1
         /\ ~threw => (Len(written) = 1 <=> due)
         /\ threw => (written = <<>> /\ due)

C9_RenewalIffUnder24h == [][\A r \in Reqs : C9_Step(r)]_vars

\* exactly 24 hours left: the user is attached and no cookie is written
C9_Witness ==
  \E r \in Reqs :
    /\ reqs[r].pc = "route"
    /\ reqs[r].cookie = Issued("u1", In24h)
    /\ now = StartMs
    /\ reqs[r].user # Undefined
    /\ reqs[r].cookies = <<>>

---------------------------------------------------------------------------
(* C10: a credential issued by renewal carries the subject id of the
   credential it replaces and expires 7 days after the renewal; along a
   chain of successive renewals the subject id never changes. *)

SevenDaysSec == 7 * 24 * 60 * 60

C10_Step(r) ==
  LET q       == reqs[r]
      written == Written(q, reqs'[r])
  IN  (RenewalRuns(r) /\ written # <<>>)
      => \A i \in 1..Len(written) :
           /\ JwtVerifyOk(written[i], JWT_SECRET, now)
           /\ written[i][2].id = Presented(q)[2].id
           /\ written[i][2].exp = (now \div 1000) + SevenDaysSec

C10_ChainKeepsSubject ==
  \A r \in Reqs :
    \A i, j \in 1..Len(chain[r]) :
      /\ IsJwt(chain[r][i])
      /\ chain[r][i][2].id = chain[r][j][2].id

C10_Property == []C10_ChainKeepsSubject /\ [][\A r \in Reqs : C10_Step(r)]_vars

\* a renewed credential was itself renewed
C10_Witness == \E r \in Reqs : Len(chain[r]) >= 3

---------------------------------------------------------------------------
(* C11: renewal is a side effect only, in addUserToRequestAndLocals and in
   requireAuthForApi alike: whether the renewal does nothing, writes a
   cookie or throws, the request continues to the next stage with nothing
   sent, and the user attached is the record the lookup returned. *)

\* the renewal of this step threw
RenewalThrew(r) ==
  \E i \in (Len(reqs[r].log) + 1)..Len(reqs'[r].log) : reqs'[r].log[i][2] = "threw"

C11_Step(r) ==
  LET q  == reqs[r]
      q2 == reqs'[r]
  IN  RenewalRuns(r)
      => /\ q2.pc = (IF q.pc = "global_resume" THEN "route" ELSE "handler")
         /\ q2.sent = q.sent
         /\ q2.user = q.result
         /\ q.pc = "global_resume" => q2.localsUser = q.result

C11_RenewalNeverBlocks == [][\A r \in Reqs : C11_Step(r)]_vars

\* the part of C11 the code keeps: in the global middleware always, and in
\* the API guard whenever the renewal does not throw
C11_GlobalStep(r) ==
  (RenewalRuns(r) /\ (reqs[r].pc = "global_resume" \/ ~RenewalThrew(r)))
  => C11_Step(r)

C11_RenewalNeverBlocksGlobal == [][\A r \in Reqs : C11_GlobalStep(r)]_vars

\* the renewal threw inside the API guard: 500, and the handler never ran
C11_ApiRenewalFault ==
  \E r \in Reqs :
    /\ reqs[r].pc = "done"
    /\ reqs[r].sent = <<ApiFault>>
    /\ EventsOf(reqs[r], "api") = <<"lookup", "attach", "threw", "caught", "respond">>

---------------------------------------------------------------------------
(* C12: a user attached by addUserToRequestAndLocals or by requireAuthForApi
   implies that the request carried a credential whose signature verified
   and whose expiry had not passed at the moment decodeToken ran, and the
   attached user is the store record whose identifier is the subject of
   that credential. *)

\* the record of `id` as the store holds it, whatever fields were selected
RecordOf(user, id) ==
  /\ user._id = id
  /\ \A f \in DOMAIN user : user[f] = UserDoc(id)[f]

\* a stage attaches only after it resolved a subject and looked it up
AttachFollowsLookup(q, stage) ==
  LET events == EventsOf(q, stage) IN
  Count(events, "attach") > 0
    => /\ Len(events) >= 2
       /\ events[1] = "lookup"
       /\ events[2] = "attach"

C12_AttachedIsSubject ==
  \A r \in Reqs :
    LET q     == reqs[r]
        token == Presented(q)
    IN  /\ AttachFollowsLookup(q, "global")
        /\ AttachFollowsLookup(q, "api")
        /\ (q.user # Undefined \/ q.localsUser # Undefined)
             => /\ Count(EventsOf(q, "global") \o EventsOf(q, "api"), "attach") > 0
                /\ IsJwt(token)
                /\ token[3].key = JWT_SECRET
                /\ token[3].over = token[2]
                /\ Has(token[2], "id")
                /\ q.user # Undefined => RecordOf(q.user, token[2].id)
                /\ q.localsUser # Undefined => RecordOf(q.localsUser, token[2].id)

\* decodeToken runs in the step that logs "lookup": the credential is usable
\* at that moment; the lookup answers with the record the store holds then;
\* the stage attaches what the lookup answered
C12_Step(r) ==
  LET q  == reqs[r]
      q2 == reqs'[r]
  IN  /\ (Resolved(q2) /\ ~Resolved(q))
        => /\ ~Unusable(Presented(q), now)
           /\ q2.decoded = Presented(q)[2]
      /\ (Resolved(q) /\ q2 # q /\ q2.result \notin {Null, Rejected})
        => /\ q.decoded.id \in store
           /\ RecordOf(q2.result, q.decoded.id)
      /\ RenewalRuns(r) => q2.user = q.result

C12_Property == []C12_AttachedIsSubject /\ [][\A r \in Reqs : C12_Step(r)]_vars

\* a user attached from a Bearer credential, after its lookup
C12_Witness ==
  \E r \in Reqs :
    /\ reqs[r].pc = "route"
    /\ reqs[r].cookie = Absent
    /\ reqs[r].authorization = Bearer7 \o Issued("u2", In23h59m)
    /\ reqs[r].user = SelectMinusPassword(UserDoc("u2"))

---------------------------------------------------------------------------
(* C13: every user record that is loaded and attached to the request
   (req.user or res.locals.user), by the global middleware and by the API
   guard alike, has the password field excluded. *)

PasswordExcluded(user) == user # Undefined => ~Has(user, "password")

C13_NoPasswordAttached ==
  \A r \in Reqs :
    /\ PasswordExcluded(reqs[r].user)
    /\ PasswordExcluded(reqs[r].localsUser)

\* the part of C13 the code keeps: what the global middleware attaches, and
\* what the render-scoped slot holds at any time
C13_NoPasswordFromGlobal ==
  \A r \in Reqs :
    /\ PasswordExcluded(reqs[r].localsUser)
    /\ Count(EventsOf(reqs[r], "api"), "attach") = 0
         => PasswordExcluded(reqs[r].user)

\* an API handler is about to run and req.user carries the password hash
C13_ApiUserHasPassword ==
  \E r \in Reqs :
    /\ reqs[r].pc = "handler"
    /\ RouteOf(reqs[r].url) = "api"
    /\ Has(reqs[r].user, "password")
    /\ reqs[r].user.password = "hash"

---------------------------------------------------------------------------
(* C14: for every handler mounted after the global middleware, the
   handlers behind requireAuthForApi included, req.user and
   res.locals.user mirror each other: both are unset or both hold the same
   user record. *)

\* the global middleware has called next: guards and handlers run from here
AfterGlobal(q) == q.pc # "idle" /\ ~InGlobal(q)

C14_SlotsMirror ==
  \A r \in Reqs :
    AfterGlobal(reqs[r]) => reqs[r].user = reqs[r].localsUser

\* the part of C14 the code keeps: the slots mirror each other until the API
\* guard attaches its own record, so for every page handler
C14_SlotsMirrorOutsideApiGuard ==
  \A r \in Reqs :
    LET q == reqs[r] IN
    /\ (AfterGlobal(q) /\ Count(EventsOf(q, "api"), "attach") = 0)
         => q.user = q.localsUser
    /\ (RouteOf(q.url) = "page" /\ HandlerReached(q)) => q.user = q.localsUser

\* an API handler is about to run with req.user set and res.locals.user unset:
\* the lookup of the global middleware was rejected, the guard's was not
C14_ApiUserNotInLocals ==
  \E r \in Reqs :
    /\ reqs[r].pc = "handler"
    /\ RouteOf(reqs[r].url) = "api"
    /\ reqs[r].user # Undefined
    /\ reqs[r].localsUser = Undefined

---------------------------------------------------------------------------
(* C18: within one request each authentication stage writes the token
   cookie at most once and only after it attached a user; a request to a
   page route carries at most one renewal cookie write, a request to an
   API-guarded route at most two, and all of them are for the same
   subject. *)

\* the token cookies the stages wrote on the response of q
RenewalWrites(q) == SelectSeq(q.cookies, IsJwt)

\* position of the first event ev among events, 0 when there is none
FirstIndex(events, ev) ==
  IF \E i \in 1..Len(events) : events[i] = ev
  THEN CHOOSE i \in 1..Len(events) :
         events[i] = ev /\ \A j \in 1..(i - 1) : events[j] # ev
  ELSE 0

WritesOnceAfterAttach(q, stage) ==
  LET events == EventsOf(q, stage) IN
  /\ Count(events, "cookie") <= 1
  /\ Count(events, "cookie") = 1
       => /\ Count(events, "attach") = 1
          /\ FirstIndex(events, "attach") < FirstIndex(events, "cookie")

C18_RenewalWritesBounded ==
  \A r \in Reqs :
    LET q      == reqs[r]
        writes == RenewalWrites(q)
    IN  /\ WritesOnceAfterAttach(q, "global")
        /\ WritesOnceAfterAttach(q, "api")
        /\ Len(writes) = Count(EventsOf(q, "global"), "cookie")
                           + Count(EventsOf(q, "api"), "cookie")
        /\ RouteOf(q.url) = "page" => Len(writes) <= 1
        /\ RouteOf(q.url) = "api" => Len(writes) <= 2
        /\ \A i \in 1..Len(writes) :
             /\ writes[i][2].id = Presented(q)[2].id
             /\ q.user # Undefined => writes[i][2].id = q.user._id

\* both stages of an API request renewed the credential
C18_Witness ==
  \E r \in Reqs :
    /\ RouteOf(reqs[r].url) = "api"
    /\ Len(RenewalWrites(reqs[r])) = 2
    /\ Count(EventsOf(reqs[r], "global"), "cookie") = 1
    /\ Count(EventsOf(reqs[r], "api"), "cookie") = 1

---------------------------------------------------------------------------
(* C17: on every request that reaches a route guarded by
   requireAuthForPage, addUserToRequestAndLocals has run to completion
   (lookup finished, next called) before the guard inspects req.user, so a
   request with a valid credential for an existing user is never
   redirected to the login page. *)

\* every event of the page guard comes after the `next` of the global
\* middleware, and the global middleware logs nothing after its `next`
GlobalCompletesBeforePageGuard(q) ==
  \A i \in 1..Len(q.log) :
    q.log[i][1] = "page"
      => /\ \E j \in 1..(i - 1) : q.log[j] = <<"global", "next">>
         /\ \A j \in (i + 1)..Len(q.log) : q.log[j][1] # "global"

RedirectedToLogin(q) ==
  /\ RouteOf(q.url) = "page"
  /\ EventsOf(q, "page") = <<"respond">>
  /\ q.sent # <<>>
  /\ q.sent[1] = Redirect(LoginRedirect(q.url))

\* the credential verifies now (so it did when it was resolved) and its
\* subject has a record now (so it had when it was looked up)
ValidForExistingUser(q) ==
  /\ ~Unusable(Presented(q), now)
  /\ Presented(q)[2].id \in store

C17_ValidNeverRedirected ==
  \A r \in Reqs :
    LET q == reqs[r] IN
    /\ GlobalCompletesBeforePageGuard(q)
    /\ RedirectedToLogin(q) => ~ValidForExistingUser(q)

\* C17 as the code has it: the global middleware completes before the page
\* guard, and a request with a valid credential for an existing user is
\* redirected only when the lookup of the global middleware was rejected.  A
\* redirect follows one of three runs of the global middleware: nothing
\* resolved, no record found, lookup rejected.
C17_RedirectOnlyWithoutSession ==
  \A r \in Reqs :
    LET q      == reqs[r]
        global == EventsOf(q, "global")
    IN  /\ GlobalCompletesBeforePageGuard(q)
        /\ RedirectedToLogin(q)
             => /\ global \in { <<"next">>, <<"lookup", "next">>,
                                <<"lookup", "caught", "next">> }
                /\ ValidForExistingUser(q) => global = <<"lookup", "caught", "next">>

\* the global middleware goes on without a lookup only when the credential
\* is unusable at that moment, and without attaching only when the lookup
\* was rejected or the store has no record at that moment
C17_Step(r) ==
  LET q  == reqs[r]
      q2 == reqs'[r]
  IN  /\ (StepFrom(r, "global") /\ q2.pc = "route") => Unusable(Presented(q), now)
      /\ (StepFrom(r, "global_await") /\ q2.result = Null) => q.decoded.id \notin store
      /\ (StepFrom(r, "global_resume") /\ q.result \notin {Null, Rejected})
           => q2.user # Undefined

C17_Property ==
  []C17_RedirectOnlyWithoutSession /\ [][\A r \in Reqs : C17_Step(r)]_vars

\* a valid credential of an existing user, redirected to the login page
\* because the lookup was rejected
C17_Witness ==
  \E r \in Reqs :
    /\ RedirectedToLogin(reqs[r])
    /\ ValidForExistingUser(reqs[r])
    /\ reqs[r].cookie = Issued("u1", In25h)

---------------------------------------------------------------------------
(* C15: two successive requests of a client carry the same credential,
   unexpired and with at least 24 hours left at both times, and the user
   store does not change in between: both attach the same user record and
   neither writes a token cookie; nothing computed for the first request
   is reused for the second. *)

\* a credential the server signed with 24 hours or more left at time t
\* (or without expiry)
AtLeast24hLeft(token, t) ==
  /\ IsJwt(token)
  /\ token[3] = Signature(token[2], JWT_SECRET)
  /\ Has(token[2], "exp") => RemainingMs(token[2], t) >= TwentyFourHoursMs

C15_RepeatAttachesSame ==
  \A r \in Reqs :
    LET q == reqs[r]
        p == client[r].last
    IN  /\ (q.pc = "route" /\ AtLeast24hLeft(Presented(q), now))
             => RenewalWrites(q) = <<>>
        /\ (/\ p # NoLast
            /\ q.pc = "route"
            /\ Presented(q) = p.cred
            /\ AtLeast24hLeft(Presented(q), now)
            /\ ~p.rejected
            /\ ~LookupRejected(q))
           => /\ q.user = p.user
              /\ q.localsUser = p.user
              /\ ~p.wrote
        /\ q.user # Undefined => AttachFollowsLookup(q, "global")

\* a request starts from nothing but the URL, the cookie jar and the headers
C15_Step(r) ==
  (reqs'[r] # reqs[r] /\ reqs'[r].pc = "global")
  => /\ reqs[r].pc \in {"idle", "done"}
     /\ reqs'[r] = [IdleReq EXCEPT !.pc = "global", !.url = reqs'[r].url,
                                   !.cookie = jar'[r],
                                   !.authorization = reqs'[r].authorization]

---------------------------------------------------------------------------
(* C19: on GET /logout the last write to the token cookie on the response
   is the clear, also when the global middleware renewed the credential
   earlier in the same request, and the handler then redirects to "/"; a
   following request that presents no credential is unauthenticated. *)

LogoutAnswered(q) == RouteOf(q.url) = "logout" /\ q.pc = "done"

C19_ClearIsLastWrite ==
  \A r \in Reqs :
    LET q == reqs[r] IN
    /\ LogoutAnswered(q)
         => /\ q.cookies # <<>>
            /\ q.cookies[Len(q.cookies)] = Cleared
            /\ Count(q.cookies, Cleared) = 1
            /\ q.sent = <<Redirect(<<"/">>)>>
            /\ EventsOf(q, "handler") = <<"clear", "respond">>
            /\ Stored(q.cookie, q.cookies) = Absent
    /\ (q.pc # "idle" /\ ~Truthy(Presented(q)))
         => /\ q.user = Undefined
            /\ q.localsUser = Undefined
            /\ RouteOf(q.url) = "page" => ~HandlerReached(q)

\* the browser drops its token cookie when the answer to /logout arrives, and
\* the request that follows carries none
C19_Step(r) ==
  LET q  == reqs[r]
      q2 == reqs'[r]
  IN  (LogoutAnswered(q) /\ q2 # q)
      => /\ jar'[r] = Absent
         /\ q2.pc = "global" => (q2.cookie = Absent /\ PathOf(q2.url) = <<"/">>)

C19_Property == []C19_ClearIsLastWrite /\ [][\A r \in Reqs : C19_Step(r)]_vars

\* the global middleware renewed the credential and /logout cleared it after
C19_Witness ==
  \E r \in Reqs :
    LET q == reqs[r] IN
    /\ LogoutAnswered(q)
    /\ Len(q.cookies) = 2
    /\ IsJwt(q.cookies[1])
    /\ q.cookies[2] = Cleared

\* after a logout the redirect to "/" was followed without a credential and
\* answered with no user attached
C19_FollowedWitness ==
  \E r \in Reqs :
    LET q == reqs[r] IN
    /\ client[r].hops = 1
    /\ client[r].last.wrote
    /\ q.pc = "done"
    /\ PathOf(q.url) = <<"/">>
    /\ Presented(q) = Absent
    /\ q.user = Undefined

---------------------------------------------------------------------------
(* C20: redirects between guarded pages and the login page never loop:
   provided the client's credential and the user store do not change
   between requests, following redirects from any page route reaches a
   rendered page after at most one redirect. *)

ExpiredOnTheWay(r) ==
  /\ client[r].usable
  /\ ~Usable(Presented(reqs[r]), now)

\* C20 as the code has it: a second redirect in a row happens only when a
\* user lookup failed or the credential expired between the requests
C20_SecondRedirectNeedsChange ==
  \A r \in Reqs :
    client[r].hops >= 2 => (client[r].failed \/ ExpiredOnTheWay(r))

\* a redirect goes to /login only without a user and to /dashboard only with
\* one, so two redirects in a row come from opposite answers
C20_Step(r) ==
  LET q  == reqs[r]
      q2 == reqs'[r]
  IN  (q.pc = "done" /\ q2.pc = "global")
      => /\ Len(q.sent) = 1
         /\ q.sent[1].status = 302
         /\ q2.url = q.sent[1].location
         /\ client'[r].hops = client[r].hops + 1
         /\ RouteOf(q2.url) = "login" => q.user = Undefined
         /\ PathOf(q2.url) = PathDashboard => q.user # Undefined
         /\ RouteOf(q2.url) \in {"login", "page", "index"}

C20_FailedLookupLoops ==
  \E r \in Reqs :
    /\ client[r].hops = MaxHops
    /\ client[r].failed
    /\ Usable(Presented(reqs[r]), now)

---------------------------------------------------------------------------
(* C16: when requests with different credentials are processed at the same
   time, interleaved at the user-store lookup, each request attaches only
   the user its own credential identifies and writes a renewal cookie only
   for its own subject on its own response; no request observes session
   state of another request. *)

\* everything request q holds of a session belongs to the subject `id`
OwnSessionOnly(q, id) ==
  /\ q.decoded # Null => q.decoded = Presented(q)[2]
  /\ q.result \notin {Null, Rejected} => q.result._id = id
  /\ q.user # Undefined => q.user._id = id
  /\ q.localsUser # Undefined => q.localsUser._id = id
  /\ q.userId # UnsetId => q.userId = id
  /\ \A i \in 1..Len(q.cookies) : IsJwt(q.cookies[i]) => q.cookies[i][2].id = id

C16_OwnSessionOnly ==
  \A r \in Reqs :
    (reqs[r].pc # "idle" /\ IsJwt(Presented(reqs[r])))
    => OwnSessionOnly(reqs[r], Presented(reqs[r])[2].id)

\* a step runs one request and leaves the other alone; a client's cookie jar
\* changes only when its own response arrives, to a cookie of that response
C16_Step ==
  /\ Cardinality({r \in Reqs : reqs'[r] # reqs[r]}) <= 1
  /\ \A r \in Reqs :
       /\ chain'[r] # chain[r] => reqs'[r] # reqs[r]
       /\ jar'[r] # jar[r]
            => /\ reqs[r].pc = "done"
               /\ \E i \in 1..Len(reqs[r].cookies) : jar'[r] = reqs[r].cookies[i]

C16_Property == []C16_OwnSessionOnly /\ [][C16_Step]_vars

\* the lookups of two requests for different subjects are in flight together,
\* one in the API guard after the global middleware attached and renewed, one
\* in the global middleware
C16_Witness ==
  /\ reqs["r1"].pc = "api_await"
  /\ reqs["r2"].pc = "global_await"
  /\ reqs["r1"].user = SelectMinusPassword(UserDoc("u1"))
  /\ Len(reqs["r1"].cookies) = 1
  /\ reqs["r2"].decoded.id = "u2"

\* both requests attached and renewed, each for its own subject
C16_BothAttached ==
  /\ reqs["r1"].pc = "handler"
  /\ reqs["r2"].pc = "handler"
  /\ reqs["r1"].user._id = "u1"
  /\ reqs["r2"].user._id = "u2"
  /\ reqs["r1"].cookies # <<>>
  /\ reqs["r2"].cookies # <<>>

---------------------------------------------------------------------------
(* C21: vote route POST /:groupId/vote/:productId: every 200 response
   corresponds to an increase of the stored vote count of that product by
   exactly one, so after N successful votes, in any interleaving of
   concurrent requests, the stored count is the initial count plus N; a
   request by a non-member, for a missing group or for a missing product
   leaves the group unchanged. *)

\* the stored vote count of product "p" of group "g"
StoredVotes(gs) == gs["g"].proposedProducts[1].votes

\* request r is answered by the vote handler in this step
VoteAnswered(r) ==
  /\ reqs[r].pc \in {"vote_await", "vote_save"}
  /\ reqs'[r].pc = "done"

VoteStatus(q) == q.sent[Len(q.sent)].status

\* who may vote on what: the group exists, the user is a member, the product
\* is proposed
Votable(q) ==
  /\ GroupIdOf(q.url) = "g"
  /\ ProductIdOf(q.url) = "p"
  /\ q.userId = "u1"

C21_Step(r) ==
  VoteAnswered(r)
  => IF VoteStatus(reqs'[r]) = 200
     THEN /\ Votable(reqs[r])
          /\ StoredVotes(groups') = StoredVotes(groups) + 1
          /\ tally'.recorded = tally.recorded + 1
     ELSE /\ groups' = groups
          /\ tally'.recorded = tally.recorded
          /\ VoteStatus(reqs'[r]) \in {403, 404, 500}
          /\ ~Votable(reqs[r]) => VoteStatus(reqs'[r]) \in {403, 404}
                                     \/ reqs[r].pc = "vote_await"

C21_CountIsInitialPlusN ==
  StoredVotes(groups) = InitialVotes + tally.recorded

C21_EveryVoteCounts ==
  []C21_CountIsInitialPlusN /\ [][\A r \in Reqs : C21_Step(r)]_vars

\* the part of C21 the code keeps: a request that is not answered 200 leaves
\* the groups unchanged; a request by a non-member, for a missing group or a
\* missing product is never answered 200 and never reaches save; a 200 reports
\* the count of the handler's own document, one more than it loaded; the
\* stored count never exceeds the initial count plus the number of 200s
C21_RefusedStep(r) ==
  /\ (VoteAnswered(r) /\ VoteStatus(reqs'[r]) # 200) => groups' = groups
  /\ (VoteAnswered(r) /\ ~Votable(reqs[r]))
       => /\ reqs[r].pc = "vote_await"
          /\ VoteStatus(reqs'[r]) \in {403, 404, 500}
  /\ (VoteAnswered(r) /\ VoteStatus(reqs'[r]) = 200)
       => /\ Votable(reqs[r])
          /\ StoredVotes(groups') = reqs[r].group.proposedProducts[1].votes
          /\ reqs'[r].sent[1].body.votes = StoredVotes(groups')
  /\ ~VoteAnswered(r) => (reqs'[r] # reqs[r] => groups' = groups)

C21_RefusedLeavesGroup ==
  /\ [](StoredVotes(groups) <= InitialVotes + tally.recorded)
  /\ [][\A r \in Reqs : C21_RefusedStep(r)]_vars

\* two requests loaded the same count, both saved and both were answered 200:
\* two recorded votes, one more stored
C21_LostVote ==
  /\ tally.recorded = 2
  /\ StoredVotes(groups) = InitialVotes + 1
  /\ \A r \in Reqs :
       /\ reqs[r].pc = "done"
       /\ reqs[r].sent = <<VoteRecorded(InitialVotes + 1)>>

\* a non-member asked to vote and was refused with the count untouched
C21_NonMemberRefused ==
  \E r \in Reqs :
    /\ reqs[r].pc = "done"
    /\ reqs[r].userId = "u2"
    /\ GroupIdOf(reqs[r].url) = "g"
    /\ reqs[r].sent = <<VoteJson(403, "You must be a member to vote on products")>>

\* a save of a document loaded two votes ago was answered 200 and took a
\* recorded vote away: three recorded votes, one stored
C21_VoteTakenBack ==
  /\ tally.recorded = 3
  /\ StoredVotes(groups) = InitialVotes + 1

====
